---------------------------- MODULE Spec2Model ----------------------------
(***************************************************************************)
(* A model of the MCP SSE bridge (src/index.js, the bridge script that     *)
(* starts at line 104): the start-up with its URL validation, the session  *)
(* state, the stream handlers, the stdin forwarder with its per-request    *)
(* timeout, the status timer and the signal handlers.                      *)
(*                                                                         *)
(* Text is modelled as a sequence of tokens.  A token is either one        *)
(* character or a fixed substring that the code's parsers look for as a    *)
(* unit ("session_id=", the scheme-and-host prefix of an absolute URL, a   *)
(* JSON key with its opening quote).  JSON.parse, new URL(),               *)
(* searchParams.get() and the regular expression of the endpoint handler   *)
(* are computed on these token sequences.                                  *)
(***************************************************************************)
EXTENDS Naturals, Sequences, FiniteSets, Bags, TLC

\* ------------------------------------------------------------------ bounds
\* Longest raw endpoint payload (in tokens) enumerated by SpecResolve.
MaxLen == 4
\* Most POST requests alive at once (in flight, or with a pending timer).
MaxPosts == 2
\* Largest value the heartbeat counter is allowed to reach.
MaxBeats == 6
\* The heartbeat ids heartbeat-1 .. heartbeat-MaxIds are the ones whose
\* sending is recorded in the history variable sentIds.
MaxIds == 1
\* Longest command-line URL (in tokens) enumerated by SpecStartup.
MaxUrlLen == 5

\* ----------------------------------------------------------------- tokens
\* JavaScript null / undefined where a string is expected: a one-token
\* sequence whose token occurs in no text.
Null == <<"#null">>
BASE == "http://host/messages/"      \* an absolute URL up to its path
QM == "?"
KEY == "session_id="
AMP == "&"
NOTURL == "not a url at all"
LB == "{"
RB == "}"
COMMA == ","
QUOTE == "\""
KSID == "\"session_id\":\""
KURL == "\"url\":\""
KENDPOINT == "\"endpoint\":\""
KURI == "\"uri\":\""

\* Characters that may occur in a URL scheme and in an identifier.
ValueChars == {"x", "y"}
\* The tokens raw (non-JSON) payloads are built from.
TextAlphabet == {BASE, QM, KEY, AMP} \cup ValueChars
\* JSON key tokens and the field each one opens.
KeyTokens == {KSID, KURL, KENDPOINT, KURI}
FieldNames == {"session_id", "url", "endpoint", "uri"}
FieldOf(k) ==
  CASE k = KSID -> "session_id"
    [] k = KURL -> "url"
    [] k = KENDPOINT -> "endpoint"
    [] k = KURI -> "uri"
KeyOf(f) == CHOOSE k \in KeyTokens : FieldOf(k) = f

\* JavaScript truthiness of a string-or-null value: null and "" are falsy.
Truthy(v) == v # Null /\ v # <<>>

\* --------------------------------------------------------------- new URL()
\* new URL(text) succeeds when the text starts with a scheme followed by
\* "://host/...": zero or more scheme characters and then BASE.  Anything
\* else (a relative reference, a JSON text, free text) throws.
ValidURL(text) ==
  /\ text # Null
  /\ \E i \in 1..Len(text) :
       /\ text[i] = BASE
       /\ \A j \in 1..(i - 1) : text[j] \in ValueChars

\* Index of the first occurrence of token t in text at or after position i,
\* Len(text) + 1 when there is none.
RECURSIVE IndexFrom(_, _, _)
IndexFrom(text, t, i) ==
  IF i > Len(text) THEN Len(text) + 1
  ELSE IF text[i] = t THEN i
  ELSE IndexFrom(text, t, i + 1)

\* The query string of a URL: what follows the first "?".
QueryOf(text) ==
  LET q == IndexFrom(text, QM, 1)
  IN IF q > Len(text) THEN <<>> ELSE SubSeq(text, q + 1, Len(text))

\* URLSearchParams.get('session_id') on a query string: the pairs are
\* separated by "&"; the first pair whose name is exactly session_id gives
\* its value (possibly the empty string); null when there is none.
RECURSIVE SearchParamsGet(_)
SearchParamsGet(query) ==
  IF query = <<>> THEN Null
  ELSE LET a == IndexFrom(query, AMP, 1)
           pair == SubSeq(query, 1, a - 1)
           rest == SubSeq(query, a + 1, Len(query))
       IN IF pair # <<>> /\ pair[1] = KEY THEN Tail(pair)
          ELSE SearchParamsGet(rest)

\* url.searchParams.get('session_id') of new URL(text).
URLSessionId(text) == SearchParamsGet(QueryOf(text))

\* ------------------------------------------------------- String.match()
\* event.data.match(/session_id=([^&]+)/): the leftmost "session_id="
\* that is followed by at least one character other than "&"; the capture
\* runs up to the next "&" or the end.  Null when nothing matches.
RECURSIVE RegexSessionId(_, _)
RegexSessionId(text, i) ==
  LET k == IndexFrom(text, KEY, i)
  IN IF k >= Len(text) THEN Null
     ELSE IF text[k + 1] = AMP THEN RegexSessionId(text, k + 1)
     ELSE SubSeq(text, k + 1, IndexFrom(text, AMP, k + 1) - 1)

\* event.data.includes('session_id')
IncludesSessionId(text) == \E i \in 1..Len(text) : text[i] \in {KEY, KSID}

\* ------------------------------------------------------------ JSON.parse
NoFields == [f \in FieldNames |-> Null]
JsonFail == [kind |-> "throw", val |-> NoFields, str |-> <<>>]

\* Parses the members of an object from position i (a key token is
\* expected there); a later member with the same key replaces an earlier.
RECURSIVE ParseMembers(_, _, _)
ParseMembers(text, i, acc) ==
  IF i > Len(text) \/ text[i] \notin KeyTokens THEN JsonFail
  ELSE LET q == IndexFrom(text, QUOTE, i + 1)
           v == SubSeq(text, i + 1, q - 1)
           acc2 == [acc EXCEPT ![FieldOf(text[i])] = v]
       IN IF q >= Len(text) THEN JsonFail
          ELSE IF \E j \in 1..Len(v) : v[j] \notin TextAlphabet \cup {NOTURL}
                 THEN JsonFail
          ELSE IF text[q + 1] = RB /\ q + 1 = Len(text)
                 THEN [kind |-> "object", val |-> acc2, str |-> <<>>]
          ELSE IF text[q + 1] = COMMA THEN ParseMembers(text, q + 2, acc2)
          ELSE JsonFail

\* JSON.parse(text): an object of string members, a string, or a throw.
JSONParse(text) ==
  IF Len(text) >= 2 /\ text[1] = LB
    THEN IF text = <<LB, RB>>
           THEN [kind |-> "object", val |-> NoFields, str |-> <<>>]
           ELSE ParseMembers(text, 2, NoFields)
  ELSE IF /\ Len(text) >= 2 /\ text[1] = QUOTE /\ text[Len(text)] = QUOTE
          /\ \A j \in 2..(Len(text) - 1) : text[j] \in TextAlphabet \cup {NOTURL}
    THEN [kind |-> "string", val |-> NoFields,
          str |-> SubSeq(text, 2, Len(text) - 1)]
  ELSE JsonFail

\* JSON.stringify of an object with the given string members, in the order
\* session_id, url, endpoint, uri (absent members are left out).
FieldOrder == <<"session_id", "url", "endpoint", "uri">>
RECURSIVE StringifyFrom(_, _, _)
StringifyFrom(obj, n, first) ==
  IF n > Len(FieldOrder) THEN <<RB>>
  ELSE LET f == FieldOrder[n]
       IN IF obj[f] = Null THEN StringifyFrom(obj, n + 1, first)
          ELSE (IF first THEN <<>> ELSE <<COMMA>>)
               \o <<KeyOf(f)>> \o obj[f] \o <<QUOTE>>
               \o StringifyFrom(obj, n + 1, FALSE)
Stringify(obj) == <<LB>> \o StringifyFrom(obj, 1, TRUE)

\* Variant of EndpointResolve: the object's URL branch returns whatever
\* searchParams.get gave, without testing it.
EndpointResolveUnchecked(sid, data) ==
  LET parsed == JSONParse(data)
      isObj == parsed.kind = "object"
      o == parsed.val
      urlString == IF Truthy(o.url) THEN o.url
                   ELSE IF Truthy(o.endpoint) THEN o.endpoint
                   ELSE o.uri
      parsed2 == isObj /\ Truthy(urlString) /\ ValidURL(urlString)
      sid2 == IF parsed2 THEN URLSessionId(urlString) ELSE sid
      parsed3 == ValidURL(data)
      sid3 == IF parsed3 THEN URLSessionId(data) ELSE sid2
      match == IF IncludesSessionId(data) THEN RegexSessionId(data, 1)
               ELSE Null
  IN IF isObj /\ Truthy(o.session_id)
       THEN [sessionId |-> o.session_id, via |-> "object"]
     ELSE IF parsed2
       THEN [sessionId |-> sid2, via |-> "object_url"]
     ELSE IF parsed3 /\ Truthy(sid3)
       THEN [sessionId |-> sid3, via |-> "direct_url"]
     ELSE IF Truthy(match)
       THEN [sessionId |-> match, via |-> "pattern"]
     ELSE [sessionId |-> sid3, via |-> "failed"]

\* Variant of EndpointResolve: when no strategy finds an identifier, the
\* raw payload is taken as the identifier.
EndpointResolveRawFallback(sid, data) ==
  LET parsed == JSONParse(data)
      isObj == parsed.kind = "object"
      o == parsed.val
      urlString == IF Truthy(o.url) THEN o.url
                   ELSE IF Truthy(o.endpoint) THEN o.endpoint
                   ELSE o.uri
      parsed2 == isObj /\ Truthy(urlString) /\ ValidURL(urlString)
      sid2 == IF parsed2 THEN URLSessionId(urlString) ELSE sid
      parsed3 == ValidURL(data)
      sid3 == IF parsed3 THEN URLSessionId(data) ELSE sid2
      match == IF IncludesSessionId(data) THEN RegexSessionId(data, 1)
               ELSE Null
  IN IF isObj /\ Truthy(o.session_id)
       THEN [sessionId |-> o.session_id, via |-> "object"]
     ELSE IF parsed2 /\ Truthy(sid2)
       THEN [sessionId |-> sid2, via |-> "object_url"]
     ELSE IF parsed3 /\ Truthy(sid3)
       THEN [sessionId |-> sid3, via |-> "direct_url"]
     ELSE IF Truthy(match)
       THEN [sessionId |-> match, via |-> "pattern"]
     ELSE [sessionId |-> data, via |-> "failed"]

\* --------------------------------------------------- the endpoint handler
\* The identifier resolution of the 'endpoint' listener: the value of
\* sessionId when the handler returns, given its value sid at entry and the
\* event's data.  `via` names the branch that returned.
EndpointResolve(sid, data) ==
  LET parsed == JSONParse(data)
      isObj == parsed.kind = "object"
      o == parsed.val
      \* parsedData.url || parsedData.endpoint || parsedData.uri
      urlString == IF Truthy(o.url) THEN o.url
                   ELSE IF Truthy(o.endpoint) THEN o.endpoint
                   ELSE o.uri
      \* the assignment of line 227 happens when new URL(urlString) succeeds
      parsed2 == isObj /\ Truthy(urlString) /\ ValidURL(urlString)
      sid2 == IF parsed2 THEN URLSessionId(urlString) ELSE sid
      \* the assignment of line 242 happens when new URL(event.data) succeeds
      parsed3 == ValidURL(data)
      sid3 == IF parsed3 THEN URLSessionId(data) ELSE sid2
      match == IF IncludesSessionId(data) THEN RegexSessionId(data, 1)
               ELSE Null
  IN IF isObj /\ Truthy(o.session_id)
       THEN [sessionId |-> o.session_id, via |-> "object"]
     ELSE IF parsed2 /\ Truthy(sid2)
       THEN [sessionId |-> sid2, via |-> "object_url"]
     ELSE IF parsed3 /\ Truthy(sid3)
       THEN [sessionId |-> sid3, via |-> "direct_url"]
     ELSE IF Truthy(match)
       THEN [sessionId |-> match, via |-> "pattern"]
     ELSE [sessionId |-> sid3, via |-> "failed"]

\* ------------------------------------------------------------------ state
VARIABLES
  serverUrl,       \* const serverUrl = process.argv[2]
  sseUrl,          \* const sseUrl: Null until the script has derived it
  postUrl,         \* const postUrl: Null until the script has derived it
  closed,          \* es.close() has been called
  exitCode,        \* <<>> while the process runs, <<code>> once it exited
  sentIds,         \* history: the n <= MaxIds of the ids heartbeat-n sent
  running,         \* the process has not exited
  isConnected,     \* let isConnected
  sessionId,       \* let sessionId: Null or a string
  connectAged,     \* Date.now() - connectTime > 10000
  idleAged,        \* Date.now() - lastMessageTime > 30000
  heartbeatCount,  \* let heartbeatCount
  reqs,            \* the bag of POST requests alive: fetch or timer pending
  wire,            \* an endpoint payload on the stream, not yet delivered
  errored,         \* history: es.onerror has run at least once
  ev,              \* the event handled by the last step
  stdout,          \* the lines the last step wrote to process.stdout
  stderr,          \* the diagnostics the last step wrote to console.error
  posted           \* the POSTs the last step handed to fetch

\* The constants of the script's start-up, and what the exit leaves behind.
urls == <<serverUrl, sseUrl, postUrl>>
exit == <<closed, exitCode>>

vars == <<urls, exit, sentIds, running, isConnected, sessionId, connectAged,
          idleAged, heartbeatCount, reqs, wire, errored, ev, stdout, stderr,
          posted>>

\* Program constants.
HeartbeatWarnAt == 5

\* ------------------------------------------------------ the start-up URLs
\* The tokens a command-line URL is built from: the scheme with its two
\* slashes, a host name, a slash, a path segment.
SCHEME == "http://"
HOST == "localhost"
SLASH == "/"
SEG == "api"
\* new URL(serverUrl) at start-up.  On texts of these tokens whose first
\* token only may be the scheme: a text that does not start with the
\* scheme has no scheme at all and throws; after "http:" any number of
\* slashes is skipped and the host that follows must not be empty.
ValidBase(text) ==
  /\ text # <<>>
  /\ text[1] = SCHEME
  /\ \E i \in 2..Len(text) : text[i] # SLASH
\* `${serverUrl}/sse` and `${serverUrl}/messages/`
DeriveSse(base) == base \o <<"/sse">>
DerivePost(base) == base \o <<"/messages/">>

\* The URL the bridge of Spec was started with, and what it derived.
ServerUrl == <<SCHEME, HOST>>
SseUrl == DeriveSse(ServerUrl)
PostUrl == DerivePost(ServerUrl)

\* A request alive: st is where its fetch stands ("fetching": pending;
\* "reading": response ok, response.text() pending; "aborted": aborted by
\* its timer, rejection pending; "settled": rejected, handler finished),
\* src is who submitted it, timer whether its setTimeout is pending, errs
\* the number of error objects written to stdout for it so far; late is
\* history, kept while the request waits for its response: a request
\* submitted before this one is still waiting for its response.
Request(st, src, timer, errs, late) ==
  [st |-> st, src |-> src, timer |-> timer, errs |-> errs, late |-> late]
NoRequest == Request("none", "none", FALSE, 0, FALSE)
Event(type, name, data, req, status) ==
  [type |-> type, name |-> name, data |-> data, req |-> req,
   status |-> status]

\* Lines of the protocol output.
RawLine(text) == [kind |-> "raw", text |-> text]
EventLine(name, data) == [kind |-> "event", event |-> name, data |-> data]
ErrorLine(type, status, message) ==
  [kind |-> "error", error |-> type, status |-> status, message |-> message]

\* Input of the environment.
MsgData == {<<"m1">>, <<"m2">>}
ListenedNames == {"ready", "update", "notification", "error", "ping"}
EventNames == ListenedNames \cup {"custom"}
Whitespace == {" ", "\n"}
Chunks == {<<"request", "\n">>}
Statuses == {200, 401, 403, 404, 500}
RejectCauses == {"ECONNREFUSED", "other"}
StreamErrors == {"refused", "status_503"}
Signals == {"SIGINT", "SIGTERM"}
EndpointPayloads ==
  { Stringify([NoFields EXCEPT !["session_id"] = <<"x">>]),
    <<BASE, QM, KEY, "y">>,
    <<BASE>>,
    <<NOTURL>> }

\* -------------------------------------------------------- pure handlers
\* data.toString().trim()
RECURSIVE TrimLeft(_)
TrimLeft(text) ==
  IF text # <<>> /\ Head(text) \in Whitespace THEN TrimLeft(Tail(text))
  ELSE text
RECURSIVE TrimRight(_)
TrimRight(text) ==
  IF text # <<>> /\ text[Len(text)] \in Whitespace
    THEN TrimRight(SubSeq(text, 1, Len(text) - 1))
  ELSE text
Trim(text) == TrimRight(TrimLeft(text))

\* `${postUrl}?session_id=${sessionId}`
PostTarget(sid) == postUrl \o <<QM, KEY>> \o sid

\* Variant of DataHandler: the connectivity check is missing.
DataHandlerNoConnectionCheck(connected, sid, data) ==
  IF ~Truthy(sid)
    THEN [log |-> <<"awaiting_session">>, post |-> <<>>]
  ELSE [log |-> <<"sending">>,
        post |-> <<[url |-> PostTarget(sid), body |-> Trim(data)]>>]

\* Variant of DataHandler: a dropped chunk is always logged as "no
\* connection".
DataHandlerOneReason(connected, sid, data) ==
  IF ~connected \/ ~Truthy(sid)
    THEN [log |-> <<"no_connection">>, post |-> <<>>]
  ELSE [log |-> <<"sending">>,
        post |-> <<[url |-> PostTarget(sid), body |-> Trim(data)]>>]

\* Variant of DataHandler: the identifier is checked before connectivity.
DataHandlerIdentifierFirst(connected, sid, data) ==
  IF ~Truthy(sid)
    THEN [log |-> <<"awaiting_session">>, post |-> <<>>]
  ELSE IF ~connected
    THEN [log |-> <<"no_connection">>, post |-> <<>>]
  ELSE [log |-> <<"sending">>,
        post |-> <<[url |-> PostTarget(sid), body |-> Trim(data)]>>]

\* The stdin 'data' listener up to its first await: the diagnostics it
\* logs and the POST it hands to fetch (none when the chunk is dropped).
DataHandler(connected, sid, data) ==
  IF ~connected
    THEN [log |-> <<"no_connection">>, post |-> <<>>]
  ELSE IF ~Truthy(sid)
    THEN [log |-> <<"awaiting_session">>, post |-> <<>>]
  ELSE [log |-> <<"sending">>,
        post |-> <<[url |-> PostTarget(sid), body |-> Trim(data)]>>]

\* Variant of HttpErrorMessage: 403 is not classified.
HttpErrorMessage401Only(status) ==
  IF status = 404 THEN "endpoint_not_found"
  ELSE IF status = 401 THEN "authentication_error"
  ELSE "http_error_with_status"

\* The message of the http_error object for a response that is not ok.
HttpErrorMessage(status) ==
  IF status = 404 THEN "endpoint_not_found"
  ELSE IF status = 401 \/ status = 403 THEN "authentication_error"
  ELSE "http_error_with_status"

\* response.ok
ResponseOk(status) == status >= 200 /\ status <= 299

\* The error type the catch block reports for a rejected fetch.
CatchErrorType(cause) ==
  IF cause = "AbortError" THEN "timeout"
  ELSE IF cause = "ECONNREFUSED" THEN "connection_refused"
  ELSE "request_error"

\* What the listeners registered for the default 'message' event write:
\* es.onmessage and the listener added with addEventListener('message')
\* are both registered for it, and run in the order of registration.
OnmessageHandler(data) == <<RawLine(data)>>
MessageListener(data) == <<RawLine(data)>>
MessageDispatch(data) == OnmessageHandler(data) \o MessageListener(data)

\* Variant of NamedListener: the payload is written without the wrapper.
NamedListenerVerbatim(name, data) ==
  IF name \in ListenedNames THEN <<RawLine(data)>> ELSE <<>>

\* What the listener of a named event writes: only the five names of the
\* forEach have one ('endpoint' has its own, which writes nothing).
NamedListener(name, data) ==
  IF name \in ListenedNames THEN <<EventLine(name, data)>> ELSE <<>>

\* The diagnostics of es.onerror.
ErrorDiagnostics(sid, aged) ==
  <<"sse_error">> \o
  (IF ~Truthy(sid) /\ aged THEN <<"troubleshooting">> ELSE <<>>)

\* JSON.stringify of the heartbeat request, reduced to its id.
Digits == <<"1", "2", "3", "4", "5", "6", "7", "8", "9">>
HeartbeatMessage(n) == <<"heartbeat-", Digits[n]>>

\* Room for one more request (the bound on the requests alive is the
\* model's, the code has none).
HasFree == BagCardinality(reqs) < MaxPosts
\* The bag of requests with r replaced by r2, with r removed, with a new
\* request (fetch called, timer armed) added.
Replace(r, r2) == (reqs (-) SetToBag({r})) (+) SetToBag({r2})
Remove(r) == reqs (-) SetToBag({r})
Waiting == {q \in BagToSet(reqs) : q.st \in {"fetching", "reading"}}
StartRequest(src) ==
  reqs (+) SetToBag({Request("fetching", src, TRUE, 0, Waiting # {})})
\* The history field late after request r stopped waiting for its response.
\* The bag keeps no order: when r was not late itself, the requests that
\* were late may have been late because of r, and none is known to be late
\* any more.
ClearLate(bag) ==
  LET T == {[q EXCEPT !.late = FALSE] : q \in BagToSet(bag)}
  IN [x \in T |-> CopiesIn(x, bag) + CopiesIn([x EXCEPT !.late = TRUE], bag)]
Answered(r, bag) == IF r.late THEN bag ELSE ClearLate(bag)

\* ------------------------------------------------------------------- Init
Init ==
  /\ serverUrl = ServerUrl
  /\ sseUrl = SseUrl
  /\ postUrl = PostUrl
  /\ closed = FALSE
  /\ exitCode = <<>>
  /\ sentIds = {}
  /\ running = TRUE
  /\ isConnected = FALSE
  /\ sessionId = Null
  /\ connectAged = FALSE
  /\ idleAged = FALSE
  /\ heartbeatCount = 0
  /\ reqs = EmptyBag
  /\ wire = Null
  /\ errored = FALSE
  /\ ev = Event("init", "", <<>>, NoRequest, 0)
  /\ stdout = <<>>
  /\ stderr = <<>>
  /\ posted = <<>>

\* ---------------------------------------------------------------- actions
\* es.onopen
OnOpen ==
  /\ running
  /\ isConnected' = TRUE
  /\ ev' = Event("open", "", <<>>, NoRequest, 0)
  /\ stdout' = <<>> /\ stderr' = <<"established">> /\ posted' = <<>>
  /\ UNCHANGED <<urls, exit, sentIds, running,
                 sessionId, connectAged, idleAged, heartbeatCount,
                 reqs, wire, errored>>

\* A default 'message' event: each registered listener calls
\* updateLastMessageTime and writes.
OnMessage ==
  /\ running
  /\ \E d \in MsgData :
       /\ ev' = Event("message", "message", d, NoRequest, 0)
       /\ stdout' = MessageDispatch(d)
  /\ idleAged' = FALSE
  /\ heartbeatCount' = 0
  /\ stderr' = <<"received">> /\ posted' = <<>>
  /\ UNCHANGED <<urls, exit, sentIds, running,
                 isConnected, sessionId, connectAged, reqs, wire,
                 errored>>

\* A named event other than 'message', 'endpoint' and 'error'.
OnNamed ==
  /\ running
  /\ \E name \in EventNames \ {"error"}, d \in MsgData :
       /\ ev' = Event("named", name, d, NoRequest, 0)
       /\ stdout' = NamedListener(name, d)
       /\ IF name \in ListenedNames
            THEN idleAged' = FALSE /\ heartbeatCount' = 0
            ELSE UNCHANGED <<idleAged, heartbeatCount>>
  /\ stderr' = <<>> /\ posted' = <<>>
  /\ UNCHANGED <<urls, exit, sentIds, running,
                 isConnected, sessionId, connectAged, reqs, wire,
                 errored>>

\* A server event named 'error'.  It is delivered to the 'error' listeners
\* of the EventSource, and es.onerror is one of them.  Whether the listener
\* added by the forEach is still registered after the later assignment to
\* es.onerror depends on the EventSource implementation (an onerror setter
\* that replaces all 'error' listeners removes it): both outcomes are kept.
OnNamedError ==
  /\ running
  /\ \E d \in MsgData, kept \in BOOLEAN :
       /\ ev' = Event("named", "error", d, NoRequest, 0)
       /\ stdout' = IF kept THEN NamedListener("error", d) ELSE <<>>
       /\ IF kept
            THEN idleAged' = FALSE /\ heartbeatCount' = 0
            ELSE UNCHANGED <<idleAged, heartbeatCount>>
  /\ isConnected' = FALSE
  /\ errored' = TRUE
  /\ stderr' = ErrorDiagnostics(sessionId, connectAged)
  /\ posted' = <<>>
  /\ UNCHANGED <<urls, exit, sentIds, running,
                 sessionId, connectAged, reqs, wire>>

\* Variant of OnError: the handler leaves isConnected as it is.
OnErrorKeepsConnected ==
  /\ running
  /\ isConnected' = isConnected
  /\ errored' = TRUE
  /\ \E e \in StreamErrors : ev' = Event("error", e, <<>>, NoRequest, 0)
  /\ stdout' = <<>>
  /\ stderr' = ErrorDiagnostics(sessionId, connectAged)
  /\ posted' = <<>>
  /\ UNCHANGED <<urls, exit, sentIds, running,
                 sessionId, connectAged, idleAged, heartbeatCount,
                 reqs, wire>>

\* es.onerror on a connection error of the stream; the event records the
\* error object the handler is given (and logs).
OnError ==
  /\ running
  /\ isConnected' = FALSE
  /\ errored' = TRUE
  /\ \E e \in StreamErrors : ev' = Event("error", e, <<>>, NoRequest, 0)
  /\ stdout' = <<>>
  /\ stderr' = ErrorDiagnostics(sessionId, connectAged)
  /\ posted' = <<>>
  /\ UNCHANGED <<urls, exit, sentIds, running,
                 sessionId, connectAged, idleAged, heartbeatCount,
                 reqs, wire>>

\* The 'endpoint' listener on an event with the given data.
Endpoint(data) ==
  /\ running
  /\ LET r == EndpointResolve(sessionId, data)
     IN /\ sessionId' = r.sessionId
        /\ stderr' = <<r.via>>
  /\ ev' = Event("endpoint", "endpoint", data, NoRequest, 0)
  /\ stdout' = <<>> /\ posted' = <<>>
  /\ UNCHANGED <<urls, exit, sentIds, running,
                 isConnected, connectAged, idleAged,
                 heartbeatCount, reqs, errored>>

OnEndpoint ==
  /\ wire = Null
  /\ \E d \in EndpointPayloads : Endpoint(d)
  /\ UNCHANGED wire

\* Variant of OnStdinData: a chunk that arrives while a request waits for
\* its response is not posted.
OnStdinDataSerial ==
  /\ running
  /\ \E c \in Chunks :
       LET h == IF Waiting # {} THEN [log |-> <<"busy">>, post |-> <<>>]
                ELSE DataHandler(isConnected, sessionId, c)
       IN /\ h.post # <<>> => HasFree
          /\ reqs' = IF h.post # <<>> THEN StartRequest("stdin") ELSE reqs
          /\ posted' = h.post
          /\ stderr' = h.log
          /\ ev' = Event("stdin", "", c, NoRequest, 0)
  /\ stdout' = <<>>
  /\ UNCHANGED <<urls, exit, sentIds, running,
                 isConnected, sessionId, connectAged, idleAged,
                 heartbeatCount, wire, errored>>

\* A chunk on process.stdin.
OnStdinData ==
  /\ running
  /\ \E c \in Chunks :
       LET h == DataHandler(isConnected, sessionId, c)
       IN /\ h.post # <<>> => HasFree
          /\ reqs' = IF h.post # <<>> THEN StartRequest("stdin") ELSE reqs
          /\ posted' = h.post
          /\ stderr' = h.log
          /\ ev' = Event("stdin", "", c, NoRequest, 0)
  /\ stdout' = <<>>
  /\ UNCHANGED <<urls, exit, sentIds, running,
                 isConnected, sessionId, connectAged, idleAged,
                 heartbeatCount, wire, errored>>

\* The setInterval callback (statusTimer).  A heartbeat goes through
\* process.stdin.emit('data', ...), which runs the stdin listener up to its
\* first await before emit returns.
StatusTimer ==
  /\ running
  /\ ev' = Event("tick", "", <<>>, NoRequest, 0)
  /\ stdout' = <<>>
  /\ IF ~isConnected
       THEN /\ stderr' = <<"still_trying">> /\ posted' = <<>>
            /\ UNCHANGED <<idleAged, heartbeatCount, reqs, sentIds>>
     ELSE IF ~Truthy(sessionId)
       THEN /\ stderr' = <<"waiting_for_session">> /\ posted' = <<>>
            /\ UNCHANGED <<idleAged, heartbeatCount, reqs, sentIds>>
     ELSE IF ~idleAged
       THEN /\ stderr' = <<>> /\ posted' = <<>>
            /\ UNCHANGED <<idleAged, heartbeatCount, reqs, sentIds>>
     ELSE /\ heartbeatCount < MaxBeats
          /\ LET n == heartbeatCount + 1
                 h == DataHandler(isConnected, sessionId, HeartbeatMessage(n))
             IN /\ h.post # <<>> => HasFree
                /\ heartbeatCount' = n
                /\ reqs' = IF h.post # <<>> THEN StartRequest("heartbeat")
                           ELSE reqs
                /\ posted' = h.post
                /\ sentIds' = IF h.post # <<>>
                                THEN sentIds \cup ({n} \cap 1..MaxIds)
                              ELSE sentIds
                /\ stderr' = <<"heartbeat">> \o h.log \o
                     (IF n >= HeartbeatWarnAt THEN <<"warning_unresponsive">>
                      ELSE <<>>)
                /\ idleAged' = FALSE
  /\ UNCHANGED <<urls, exit, running, isConnected, sessionId, connectAged,
                 wire, errored>>

\* fetch resolves with a response: the timeout is cleared; a response that
\* is not ok is reported, an ok response is read with response.text().
FetchResolve ==
  /\ running
  /\ \E r \in BagToSet(reqs), status \in Statuses :
       /\ r.st = "fetching"
       /\ ev' = Event("response", "", <<>>, r, status)
       /\ IF ResponseOk(status)
            THEN /\ reqs' = Replace(r, Request("reading", r.src, FALSE,
                                                r.errs, r.late))
                 /\ stdout' = <<>>
                 /\ stderr' = <<"sent">>
            ELSE /\ reqs' = Answered(r, Remove(r))
                 /\ stdout' = <<ErrorLine("http_error", status,
                                          HttpErrorMessage(status))>>
                 /\ stderr' = <<"http_error", HttpErrorMessage(status)>>
  /\ posted' = <<>>
  /\ UNCHANGED <<urls, exit, sentIds, running,
                 isConnected, sessionId, connectAged, idleAged,
                 heartbeatCount, wire, errored>>

\* response.text() settles: the body is written, or a response_error.
BodyResolve ==
  /\ running
  /\ \E r \in BagToSet(reqs), ok \in BOOLEAN :
       /\ r.st = "reading"
       /\ ev' = Event("body", IF ok THEN "read" ELSE "read_failed", <<>>,
                      r, 0)
       /\ stdout' = IF ok THEN <<RawLine(<<"response-body">>)>>
                    ELSE <<ErrorLine("response_error", 0, "read_failed")>>
       /\ stderr' = IF ok THEN <<"got_response">> ELSE <<"read_failed">>
       /\ reqs' = Answered(r, Remove(r))
  /\ posted' = <<>>
  /\ UNCHANGED <<urls, exit, sentIds, running,
                 isConnected, sessionId, connectAged, idleAged,
                 heartbeatCount, wire, errored>>

\* fetch rejects with a network error: the catch block reports it.  The
\* clearTimeout of the try block is skipped, so the timer stays armed.
FetchReject ==
  /\ running
  /\ \E r \in BagToSet(reqs), cause \in RejectCauses :
       /\ r.st = "fetching"
       /\ ev' = Event("reject", cause, <<>>, r, 0)
       /\ stdout' = <<ErrorLine(CatchErrorType(cause), 0, cause)>>
       /\ stderr' = <<"error_sending", cause>>
       /\ reqs' = Answered(r, Replace(r, Request("settled", r.src, r.timer,
                                                  r.errs + 1, FALSE)))
  /\ posted' = <<>>
  /\ UNCHANGED <<urls, exit, sentIds, running,
                 isConnected, sessionId, connectAged, idleAged,
                 heartbeatCount, wire, errored>>

\* The setTimeout callback of a request: it aborts the controller and
\* writes a timeout error, whatever has become of the fetch.
TimerFire ==
  /\ running
  /\ \E r \in BagToSet(reqs) :
       /\ r.timer
       /\ ev' = Event("timer", "", <<>>, r, 0)
       /\ stdout' = <<ErrorLine("timeout", 0, "timed_out_after_10s")>>
       /\ stderr' = <<"timed_out_after_10s">>
       /\ reqs' = IF r.st = "fetching"
                    THEN Answered(r, Replace(r, Request("aborted", r.src,
                                                        FALSE, r.errs + 1,
                                                        FALSE)))
                    ELSE Remove(r)
  /\ posted' = <<>>
  /\ UNCHANGED <<urls, exit, sentIds, running,
                 isConnected, sessionId, connectAged, idleAged,
                 heartbeatCount, wire, errored>>

\* The aborted fetch rejects with an AbortError: the catch block reports.
AbortReject ==
  /\ running
  /\ \E r \in BagToSet(reqs) :
       /\ r.st = "aborted"
       /\ ev' = Event("reject", "AbortError", <<>>, r, 0)
       /\ stdout' = <<ErrorLine(CatchErrorType("AbortError"), 0,
                                "timed_out_after_10s")>>
       /\ stderr' = <<"error_sending", "timed_out_after_10s">>
       /\ reqs' = Remove(r)
  /\ posted' = <<>>
  /\ UNCHANGED <<urls, exit, sentIds, running,
                 isConnected, sessionId, connectAged, idleAged,
                 heartbeatCount, wire, errored>>

\* Variant of OnSignal: the handler closes the stream and leaves the
\* process running until the requests alive have finished.
OnSignalDrains ==
  /\ running /\ ~closed
  /\ \E sig \in Signals : ev' = Event("signal", sig, <<>>, NoRequest, 0)
  /\ closed' = TRUE
  /\ exitCode' = IF reqs = EmptyBag THEN <<0>> ELSE exitCode
  /\ running' = (reqs # EmptyBag)
  /\ stdout' = <<>> /\ stderr' = <<>> /\ posted' = <<>>
  /\ UNCHANGED <<urls, sentIds, isConnected, sessionId, connectAged,
                 idleAged, heartbeatCount, reqs, wire, errored>>

\* SIGINT / SIGTERM: es.close() and process.exit(0); the 'exit' listeners
\* clear the interval.  Pending fetches and timers die with the process;
\* the event records one of the requests that were alive, if any.
OnSignal ==
  /\ running
  /\ \E sig \in Signals,
        r \in (IF reqs = EmptyBag THEN {NoRequest} ELSE BagToSet(reqs)) :
       ev' = Event("signal", sig, <<>>, r, 0)
  /\ closed' = TRUE
  /\ exitCode' = <<0>>
  /\ running' = FALSE
  /\ reqs' = EmptyBag
  /\ stdout' = <<>> /\ stderr' = <<>> /\ posted' = <<>>
  /\ UNCHANGED <<urls, sentIds, isConnected, sessionId, connectAged,
                 idleAged, heartbeatCount, wire, errored>>

\* Time passes: more than 10 s since connectTime.
ConnectAges ==
  /\ running /\ ~connectAged
  /\ connectAged' = TRUE
  /\ ev' = Event("time", "", <<>>, NoRequest, 0)
  /\ stdout' = <<>> /\ stderr' = <<>> /\ posted' = <<>>
  /\ UNCHANGED <<urls, exit, sentIds, running,
                 isConnected, sessionId, idleAged, heartbeatCount,
                 reqs, wire, errored>>

\* Time passes: more than 30 s since lastMessageTime (which is at least
\* connectTime, so more than 10 s have passed since that).
IdleAges ==
  /\ running /\ connectAged /\ ~idleAged
  /\ idleAged' = TRUE
  /\ ev' = Event("time", "", <<>>, NoRequest, 0)
  /\ stdout' = <<>> /\ stderr' = <<>> /\ posted' = <<>>
  /\ UNCHANGED <<urls, exit, sentIds, running,
                 isConnected, sessionId, connectAged,
                 heartbeatCount, reqs, wire, errored>>

Next ==
  \/ OnOpen
  \/ OnMessage
  \/ OnNamed
  \/ OnNamedError
  \/ OnError
  \/ OnEndpoint
  \/ OnStdinData
  \/ StatusTimer
  \/ FetchResolve
  \/ BodyResolve
  \/ FetchReject
  \/ TimerFire
  \/ AbortReject
  \/ OnSignal
  \/ ConnectAges
  \/ IdleAges

Spec == Init /\ [][Next]_vars

\* ------------------------------------------- the resolution of one payload
\* All raw texts of at most n tokens.
Texts(n) == UNION {[1..k -> TextAlphabet] : k \in 0..n}
FieldIds == {Null, <<>>, <<"x">>}
FieldUrls == {Null, <<>>, <<BASE>>, <<BASE, QM, KEY, "y">>,
              <<QM, KEY, "y">>, <<BASE, QM, KEY>>}
Objects ==
  {[session_id |-> i, url |-> u, endpoint |-> e, uri |-> r] :
     i \in FieldIds, u \in FieldUrls, e \in FieldUrls, r \in FieldUrls}
AllPayloads ==
  Texts(MaxLen) \cup {<<NOTURL>>}
  \cup {Stringify(o) : o \in Objects}
  \cup {<<QUOTE>> \o t \o <<QUOTE>> : t \in Texts(2)}

\* One endpoint event is on the stream; sessionId is unset (null, or the
\* empty string a failed resolution can leave behind).
InitResolve ==
  /\ serverUrl = ServerUrl
  /\ sseUrl = SseUrl
  /\ postUrl = PostUrl
  /\ closed = FALSE
  /\ exitCode = <<>>
  /\ sentIds = {}
  /\ running = TRUE
  /\ isConnected = TRUE
  /\ sessionId \in {Null, <<>>}
  /\ connectAged = FALSE
  /\ idleAged = FALSE
  /\ heartbeatCount = 0
  /\ reqs = EmptyBag
  /\ wire \in AllPayloads
  /\ errored = FALSE
  /\ ev = Event("init", "", <<>>, NoRequest, 0)
  /\ stdout = <<>>
  /\ stderr = <<>>
  /\ posted = <<>>

DeliverEndpoint ==
  /\ wire # Null
  /\ Endpoint(wire)
  /\ wire' = Null

NextResolve == DeliverEndpoint

SpecResolve == InitResolve /\ [][NextResolve]_vars

\* ------------------------------------------------------------ the start-up
\* All command-line arguments of at most n tokens; the scheme may only come
\* first.  The empty text stands for a missing argument as well.
BaseUrls(n) ==
  {<<>>} \cup
  UNION {{<<h>> \o t : h \in {SCHEME, HOST, SLASH, SEG},
                       t \in [1..k -> {HOST, SLASH, SEG}]} : k \in 0..(n - 1)}

\* The process has been launched with an argument; the script has not run.
InitStartup ==
  /\ serverUrl \in BaseUrls(MaxUrlLen)
  /\ sseUrl = Null
  /\ postUrl = Null
  /\ closed = FALSE
  /\ exitCode = <<>>
  /\ sentIds = {}
  /\ running = TRUE
  /\ isConnected = FALSE
  /\ sessionId = Null
  /\ connectAged = FALSE
  /\ idleAged = FALSE
  /\ heartbeatCount = 0
  /\ reqs = EmptyBag
  /\ wire = Null
  /\ errored = FALSE
  /\ ev = Event("init", "", <<>>, NoRequest, 0)
  /\ stdout = <<>>
  /\ stderr = <<>>
  /\ posted = <<>>

\* The script from its first line to the creation of the EventSource: a
\* missing or invalid URL ends the process with code 1, otherwise the two
\* endpoints are derived and the session state is initialised.
Startup ==
  /\ running /\ sseUrl = Null
  /\ ev' = Event("startup", "", serverUrl, NoRequest, 0)
  /\ IF ~Truthy(serverUrl)
       THEN /\ stderr' = <<"url_required">>
            /\ exitCode' = <<1>> /\ running' = FALSE
            /\ UNCHANGED <<sseUrl, postUrl>>
     ELSE IF ~ValidBase(serverUrl)
       THEN /\ stderr' = <<"invalid_url">>
            /\ exitCode' = <<1>> /\ running' = FALSE
            /\ UNCHANGED <<sseUrl, postUrl>>
     ELSE /\ sseUrl' = DeriveSse(serverUrl)
          /\ postUrl' = DerivePost(serverUrl)
          /\ stderr' = <<"connecting">>
          /\ UNCHANGED <<exitCode, running>>
  /\ sessionId' = Null
  /\ isConnected' = FALSE
  /\ heartbeatCount' = 0
  /\ stdout' = <<>> /\ posted' = <<>>
  /\ UNCHANGED <<serverUrl, closed, sentIds, connectAged, idleAged, reqs,
                 wire, errored>>

NextStartup == Startup

SpecStartup == InitStartup /\ [][NextStartup]_vars

\* ================================================================= claims
\* The two precondition checks as the claims state them.
Ready == isConnected /\ Truthy(sessionId)

\* C1: a POST is handed to fetch only in a step that handles a stdin chunk
\* or a status-timer tick, only one per step, and only while connectivity
\* is true and the session identifier is set.
C1_PostOnlyWhenReady ==
  posted # <<>> =>
    /\ Ready
    /\ Len(posted) = 1
    /\ ev.type \in {"stdin", "tick"}

\* C1 witness: the status timer's synthetic ping was handed to fetch.
C1_Witness ==
  /\ ev.type = "tick"
  /\ posted # <<>>
  /\ posted[1].body = HeartbeatMessage(heartbeatCount)

\* C2 (as claimed): once the session identifier is set, no step changes it.
C2_IdentifierNeverChanges ==
  [][Truthy(sessionId) => sessionId' = sessionId]_vars

\* C3 (as claimed): a chunk arriving while the identifier is unresolved gives
\* no POST and the "awaiting session" diagnostic.
C3_Original ==
  (ev.type = "stdin" /\ ~Truthy(sessionId)) =>
    (posted = <<>> /\ stderr = <<"awaiting_session">>)

\* C3 (amended): a chunk arriving while the identifier is unresolved gives no
\* POST and starts no request, and its diagnostic is "awaiting session" when
\* connectivity is true and "no connection" when it is false; a chunk
\* arriving while connectivity is true and the identifier is set gives
\* exactly one POST, for that chunk (trimmed), addressed to
\* <base>/messages/?session_id=<identifier>.  A request comes alive only in
\* the step that hands its POST to fetch: nothing is kept for later.
C3_DropOrPostOnce ==
  [][/\ (ev'.type = "stdin" /\ ~Truthy(sessionId)) =>
          /\ posted' = <<>>
          /\ reqs' = reqs
          /\ stderr' = IF isConnected THEN <<"awaiting_session">>
                       ELSE <<"no_connection">>
     /\ (ev'.type = "stdin" /\ Ready) =>
          /\ Len(posted') = 1
          /\ posted'[1].url =
               ServerUrl \o <<"/messages/", "?", "session_id=">> \o sessionId
          /\ posted'[1].body = <<"request">>
          /\ BagCardinality(reqs') = BagCardinality(reqs) + 1
     /\ BagCardinality(reqs') > BagCardinality(reqs) => Len(posted') = 1
    ]_vars

\* C3 witness: after the identifier resolved, a chunk was posted.
C3_Witness ==
  /\ ev.type = "stdin"
  /\ Len(posted) = 1
  /\ posted[1].url = PostTarget(sessionId)

\* The four strategies as the claim lists them, each giving the identifier
\* it finds or Null.
Strategy1(data) ==
  LET p == JSONParse(data)
  IN IF p.kind = "object" THEN p.val.session_id ELSE Null
Strategy2(data) ==
  LET p == JSONParse(data)
      u == IF Truthy(p.val.url) THEN p.val.url
           ELSE IF Truthy(p.val.endpoint) THEN p.val.endpoint
           ELSE p.val.uri
  IN IF p.kind = "object" /\ Truthy(u) /\ ValidURL(u) THEN URLSessionId(u)
     ELSE Null
Strategy3(data) == IF ValidURL(data) THEN URLSessionId(data) ELSE Null
Strategy4(data) == RegexSessionId(data, 1)
RECURSIVE FirstNonEmpty(_)
FirstNonEmpty(results) ==
  IF results = <<>> THEN Null
  ELSE IF Truthy(Head(results)) THEN Head(results)
  ELSE FirstNonEmpty(Tail(results))
Resolved(data) ==
  FirstNonEmpty(<<Strategy1(data), Strategy2(data), Strategy3(data),
                  Strategy4(data)>>)

\* C4: an endpoint event received while the identifier is unset leaves the
\* identifier equal to the result of the first of the four strategies that
\* yields a non-empty value, when there is one.
C4_FirstStrategyWins ==
  [][(ev'.type = "endpoint" /\ ~Truthy(sessionId) /\ Truthy(Resolved(ev'.data)))
       => sessionId' = Resolved(ev'.data)]_vars

\* C4 witness: the URL payload with a session_id parameter was resolved by
\* the third strategy (the first two do not apply).
C4_Witness ==
  /\ ev.type = "endpoint"
  /\ ev.data = <<BASE, QM, KEY, "x">>
  /\ ~Truthy(Strategy1(ev.data)) /\ ~Truthy(Strategy2(ev.data))
  /\ sessionId = <<"x">>

\* C5: an endpoint event on which all four strategies fail, received while
\* the identifier is unset, leaves it unset and the process running; and
\* while the identifier is unset every stdin chunk is dropped: no POST, no
\* request started.
C5_FailedHandshakeBlocks ==
  [][/\ (ev'.type = "endpoint" /\ ~Truthy(sessionId)
          /\ ~Truthy(Resolved(ev'.data)))
          => (~Truthy(sessionId') /\ running' /\ reqs' = reqs)
     /\ ~Truthy(sessionId) /\ ev'.type \in {"stdin", "tick"}
          => (posted' = <<>> /\ reqs' = reqs /\ running')
    ]_vars

\* C5 witness: the payload "not a url at all" was handled, the identifier
\* is unset and the process runs.
C5_Witness ==
  /\ ev.type = "endpoint"
  /\ ev.data = <<NOTURL>>
  /\ stderr = <<"failed">>
  /\ ~Truthy(sessionId)
  /\ running

\* C6 (as claimed): a default message event writes exactly one line, the
\* payload verbatim.
C6_OneLinePerMessage ==
  ev.type = "message" => stdout = <<RawLine(ev.data)>>

C8_ReportedOnce ==
  /\ (ev.type \in {"timer", "reject"} /\ ev.req.errs >= 1) => stdout = <<>>
  /\ (ev.type = "reject" /\ ev.req.errs = 0) =>
       /\ Len(stdout) = 1
       /\ stdout[1].error = (CASE ev.name = "AbortError" -> "timeout"
                               [] ev.name = "ECONNREFUSED" -> "connection_refused"
                               [] OTHER -> "request_error")
  /\ ev.type \in {"timer", "reject"} => running

\* The classes of a non-success status as the claim lists them.
HttpClass(status) ==
  CASE status = 404 -> "endpoint_not_found"
    [] status \in {401, 403} -> "authentication_error"
    [] OTHER -> "http_error_with_status"

\* C9: a response with a non-success status is reported as one http_error
\* object with the status code and the class of the status (404: endpoint
\* missing; 401, 403: authentication; others: generic), the process keeps
\* running and connectivity and the identifier are left as they were.
C9_HttpStatusClassified ==
  [][(ev'.type = "response" /\ ~(ev'.status \in 200..299)) =>
       /\ stdout' = <<[kind |-> "error", error |-> "http_error",
                       status |-> ev'.status,
                       message |-> HttpClass(ev'.status)]>>
       /\ running'
       /\ isConnected' = isConnected
       /\ sessionId' = sessionId
    ]_vars

\* C9 witness: a 404 was reported in the ready state, where a further chunk
\* would be posted.
C9_Witness ==
  /\ ev.type = "response"
  /\ ev.status = 404
  /\ stdout # <<>>
  /\ Ready
  /\ running

\* C10 (as claimed): after a stream error connectivity stays false and no
\* POST is dispatched.
C10_Original ==
  errored => (~isConnected /\ posted = <<>>)

\* C10 (amended): a stream error sets connectivity to false and leaves the
\* process running; while connectivity is false no POST is dispatched; and
\* connectivity becomes true again only by the stream's open event.
C10_DisconnectedUntilOpen ==
  [][/\ (ev'.type = "error" \/ (ev'.type = "named" /\ ev'.name = "error"))
          => (~isConnected' /\ running' /\ posted' = <<>>)
     /\ ~isConnected' => posted' = <<>>
     /\ (~isConnected /\ isConnected') => ev'.type = "open"
    ]_vars

\* C10 witness: after a stream error the stream opened again and a POST was
\* dispatched.
C10_Witness ==
  /\ errored
  /\ isConnected
  /\ posted # <<>>

\* C11: a SIGINT or SIGTERM, in whatever state it arrives, closes the stream
\* subscription and ends the process with exit code 0 in the same step,
\* whatever requests are alive (they are abandoned); that step dispatches
\* no POST and writes no output line, and no step follows it: nothing is
\* dispatched or written after the signal, no response and no timeout
\* error of a POST that was in flight either.
C11_SignalExitsAtOnce ==
  [][/\ ev'.type = "signal" =>
          /\ closed' /\ exitCode' = <<0>> /\ ~running'
          /\ reqs' = EmptyBag
          /\ posted' = <<>> /\ stdout' = <<>>
     /\ ~closed /\ running
    ]_vars

\* C11 witness: the signal arrived while a POST was in flight, and the
\* process has exited with code 0.
C11_Witness ==
  /\ ev.type = "signal"
  /\ ev.req.st = "fetching"
  /\ closed /\ exitCode = <<0>> /\ ~running
  /\ reqs = EmptyBag

\* The path of a URL built from the start-up tokens: what follows the
\* authority (the slashes after the scheme are skipped, the host runs up to
\* the next token that starts with a slash).
StartsWithSlash(t) == t \in {SLASH, "/sse", "/messages/"}
EndsWithSlash(t) == t \in {SLASH, "/messages/"}
PathOf(url) ==
  LET i == CHOOSE k \in 2..Len(url) :
             url[k] # SLASH /\ \A m \in 2..(k - 1) : url[m] = SLASH
      j == CHOOSE k \in (i + 1)..Len(url) :
             StartsWithSlash(url[k])
             /\ \A m \in (i + 1)..(k - 1) : ~StartsWithSlash(url[m])
  IN SubSeq(url, j, Len(url))
DoubleSlash(path) ==
  \E k \in 1..(Len(path) - 1) :
     EndsWithSlash(path[k]) /\ StartsWithSlash(path[k + 1])

\* C12 (as claimed): for every base URL the start-up accepts, the derived
\* SSE endpoint is the base followed by "/sse", the derived POST endpoint
\* the base followed by "/messages/", and the path of neither contains a
\* double slash.
C12_DerivedUrlsWellFormed ==
  sseUrl # Null =>
    /\ sseUrl = serverUrl \o <<"/sse">>
    /\ postUrl = serverUrl \o <<"/messages/">>
    /\ ~DoubleSlash(PathOf(sseUrl))
    /\ ~DoubleSlash(PathOf(postUrl))

\* C13: a chunk that arrives in the ready state has its own POST handed to
\* fetch in the same step, whatever requests are in flight, and the
\* requests in flight are left as they are; a chunk causes at most one
\* POST; a response body is written in the step in which its request
\* completes; and while requests wait for their responses the stream
\* events, further chunks and the timer ticks can still be handled.
C13_ForwardingDoesNotBlock ==
  /\ [][/\ (ev'.type = "stdin" /\ Ready) =>
             /\ Len(posted') = 1
             /\ \E q \in BagToSet(reqs') :
                   q.st = "fetching" /\ reqs' = reqs (+) SetToBag({q})
        /\ ev'.type = "stdin" =>
             /\ Len(posted') <= 1
             /\ BagCardinality(reqs') <= BagCardinality(reqs) + 1
        /\ (ev'.type = "body" /\ ev'.name = "read") =>
             /\ Len(stdout') = 1 /\ stdout'[1].kind = "raw"
             /\ BagCardinality(reqs') = BagCardinality(reqs) - 1
       ]_vars
  /\ []((running /\ Waiting # {}) =>
         /\ ENABLED OnMessage /\ ENABLED OnNamed /\ ENABLED OnEndpoint
         /\ (HasFree => ENABLED OnStdinData)
         /\ ((HasFree /\ heartbeatCount < MaxBeats) => ENABLED StatusTimer))

\* C13 witness: the response of a request was written while a request
\* submitted before it is still waiting for its own response.
C13_Witness ==
  /\ ev.type = "body" /\ ev.name = "read"
  /\ ev.req.late
  /\ stdout = <<RawLine(<<"response-body">>)>>
  /\ \E q \in BagToSet(reqs) : q.st \in {"fetching", "reading"} /\ ~q.late

\* C14 (as claimed): the receipt of an event on the stream resets the
\* heartbeat counter to 0 and the idle time.  Stated for the events the
\* script registers a listener of its own for: the default message, the
\* named events ready, update, notification and ping, and the endpoint
\* event.
C14_EveryEventResets ==
  (\/ ev.type \in {"message", "endpoint"}
   \/ (ev.type = "named"
         /\ ev.name \in {"ready", "update", "notification", "ping"})) =>
    (heartbeatCount = 0 /\ ~idleAged)

\* x occurs in the sequence seq.
Has(seq, x) == \E k \in 1..Len(seq) : seq[k] = x

\* C15 (as claimed): in a run of synthetic pings with no inbound event in
\* between, the "server appears unresponsive" warning is emitted with the
\* fifth ping and with no other.
C15_WarnedOnceAtFifth ==
  (ev.type = "tick" /\ posted # <<>>) =>
    (Has(stderr, "warning_unresponsive") <=> heartbeatCount = 5)

\* C16 (as claimed): a synthetic ping never carries an id that an earlier
\* synthetic ping of the process carried.
C16_PingIdsUnique ==
  [][(ev'.type = "tick" /\ posted' # <<>>) =>
       \A n \in sentIds : posted'[1].body # HeartbeatMessage(n)]_vars

\* C17: a chunk that arrives while connectivity is false is dropped with
\* the reason "no connection", whether the identifier is set or not; one
\* that arrives while connectivity is true and the identifier is unset is
\* dropped with the reason "awaiting session", which is given in no other
\* case; a dropped chunk dispatches no POST, writes no output line and
\* leaves the session, the liveness state and the requests as they were.
C17_ConnectivityCheckedFirst ==
  [][ev'.type = "stdin" =>
       /\ ~isConnected => stderr' = <<"no_connection">>
       /\ (isConnected /\ ~Truthy(sessionId)) =>
            stderr' = <<"awaiting_session">>
       /\ Has(stderr', "awaiting_session") =>
            (isConnected /\ ~Truthy(sessionId))
       /\ ~Ready =>
            /\ posted' = <<>> /\ stdout' = <<>>
            /\ UNCHANGED <<isConnected, sessionId, heartbeatCount, idleAged,
                           connectAged, reqs, sentIds, running>>
    ]_vars

\* C17 witness: a chunk was dropped with "no connection" while the
\* identifier is set.
C17_Witness ==
  /\ ev.type = "stdin"
  /\ ~isConnected /\ Truthy(sessionId)
  /\ stderr = <<"no_connection">>
  /\ posted = <<>>

\* C18 (as claimed): the troubleshooting diagnostic is emitted by a stream
\* error only while no identifier is resolved and more than 10 seconds have
\* passed since the stream was requested, and of two stream errors in a row
\* the second does not emit it again.
C18_TroubleshootingOncePerBurst ==
  [][/\ (ev'.type = "error" /\ Has(stderr', "troubleshooting")) =>
          (~Truthy(sessionId) /\ connectAged)
     /\ (ev.type = "error" /\ Has(stderr, "troubleshooting")
           /\ ev'.type = "error") => ~Has(stderr', "troubleshooting")
    ]_vars

\* C19 (as claimed): every line written as a POST response body or as a
\* POST error object answers a request that came in on stdin, never a
\* synthetic ping of the status timer.
C19_OnlyClientRequestsAnswered ==
  (ev.type \in {"response", "body", "reject", "timer"} /\ stdout # <<>>) =>
    ev.req.src = "stdin"

\* C20 (as claimed): a successful HTTP response to a POST (a ping or a real
\* request) counts as server activity: it resets the heartbeat counter and
\* the idle time.
C20_ResponseCountsAsActivity ==
  [][(ev'.type = "body" /\ ev'.name = "read") =>
       (heartbeatCount' = 0 /\ ~idleAged')]_vars
=============================================================================
